---- MODULE Spec2Model ----
(***************************************************************************)
(* State-machine model of backend/server.py: the kanji aggregation proxy   *)
(* (GET /api/kanji, GET /api/kanji/{id}) and the status log                *)
(* (POST /api/status).                                                     *)
(*                                                                         *)
(* A request handler is a coroutine; it yields at every awaited outbound   *)
(* call.  Each action below is the code between two awaits, so one request *)
(* is the chain  GetKanji -> ListingFetch* -> VocabFetch? -> RadicalFetch? *)
(* -> Return.  The upstream API is the environment: what it stores is part *)
(* of the initial state, and how each call ends (a status code, a timeout, *)
(* a transport error) is chosen when the call is made.                     *)
(*                                                                         *)
(* Fields that are copied through unchanged (characters, meanings and      *)
(* readings of a kanji, mnemonics, context sentences, the timestamp of a   *)
(* status check) are left out of the records.                              *)
(***************************************************************************)
EXTENDS Integers, Sequences, FiniteSets, TLC

VARIABLES
    api_key,          \* WANIKANI_API_KEY is non-empty
    upstream,         \* the upstream kanji listing: a chain of pages
    status_checks,    \* db.status_checks, in insertion order
    status_returned,  \* the StatusCheck objects create_status_check returned
    pc,               \* where the request in flight is
    req,              \* the request's parameters
    next_url,         \* get_kanji: the cursor of the next listing page (0: None)
    all_kanji_raw,    \* get_kanji: the records collected so far
    paginated_raw,    \* get_kanji: the requested page's raw records
    vocab_map,        \* get_kanji: id -> VocabWord
    radical_map,      \* get_kanji: id -> RadicalComponent
    calls,            \* the outbound calls of the request in flight, in order
    result            \* what the request returns or raises

vars == <<api_key, upstream, status_checks, status_returned, pc, req, next_url,
          all_kanji_raw, paginated_raw, vocab_map, radical_map, calls, result>>

----------------------------------------------------------------------------
(* Bounds of the model *)

NumKanji == 3
MaxPageItems == 2
MaxPage == 3
MaxPerPage == 2
MaxStatus == 1
MaxLevel == 61
BigCount == 45

(* Constants of the program *)

VocabLimit == 5
HTTP_OK == 200
HTTP_NOT_FOUND == 404
HTTP_TIMEOUT == 504
HTTP_ERROR == 500
PerPageDefault == 20
PerPageMax == 100

----------------------------------------------------------------------------
(* Helpers: Python's list and dict operations *)

Min(a, b) == IF a <= b THEN a ELSE b

Range(s) == {s[i] : i \in DOMAIN s}

\* s[a:b] for 0 <= a, 0 <= b
Slice(s, a, b) == SubSeq(s, a + 1, Min(b, Len(s)))

\* d.get(k, default)
Get(d, k, default) == IF k \in DOMAIN d THEN d[k] ELSE default

\* [f(x) for x in s if x.get("primary")]
PrimaryOnly(s) == SelectSeq(s, LAMBDA m : Get(m, "primary", FALSE))

----------------------------------------------------------------------------
(* The upstream API: what it stores.  The handlers read every field with   *)
(* .get(name, default), so a subject may lack any field.                   *)

M(meaning, primary) == [meaning |-> meaning, primary |-> primary]

R(reading, primary) == [reading |-> reading, primary |-> primary]

\* The kanji subject with this id.  Kanji 1 lists six vocabulary words (one
\* more than the handler resolves), kanji 2 shares two of them and names a
\* word and a radical the upstream no longer has, kanji 3 has no optional
\* field at all.
KanjiItem(id) ==
    CASE id = 1 -> [id |-> 1, data |->
                      [level |-> 10,
                       amalgamation_subject_ids |-> <<11, 12, 13, 14, 15, 16>>,
                       component_subject_ids |-> <<21, 22>>]]
      [] id = 2 -> [id |-> 2, data |->
                      [level |-> 11,
                       amalgamation_subject_ids |-> <<16, 17, 11>>,
                       component_subject_ids |-> <<23, 24>>]]
      [] id = 3 -> [id |-> 3, data |-> [characters |-> "san"]]
      [] OTHER  -> [id |-> id, data |->
                      [level |-> (id % 60) + 1,
                       amalgamation_subject_ids |-> <<>>,
                       component_subject_ids |-> <<>>]]

VocabIds == 11 .. 16

VocabItem(id) ==
    CASE id = 11 -> [id |-> 11, data |->
                       [characters |-> "v11",
                        meanings |-> <<M("A", FALSE), M("B", FALSE)>>,
                        readings |-> <<R("ra", TRUE), R("rb", FALSE)>>]]
      [] id = 12 -> [id |-> 12, data |->
                       [characters |-> "v12",
                        meanings |-> <<M("A", TRUE), M("B", FALSE), M("C", TRUE)>>,
                        readings |-> <<R("ra", FALSE)>>]]
      [] id = 13 -> [id |-> 13, data |-> [characters |-> "v13"]]
      [] id = 14 -> [id |-> 14, data |->
                       [characters |-> "v14",
                        meanings |-> <<M("A", FALSE), M("B", TRUE)>>,
                        readings |-> <<R("ra", TRUE), R("rb", TRUE)>>]]
      [] id = 15 -> [id |-> 15, data |->
                       [characters |-> "v15",
                        meanings |-> <<[meaning |-> "A"], [meaning |-> "B"]>>,
                        readings |-> <<>>]]
      [] OTHER   -> [id |-> id, data |->
                       [characters |-> "v",
                        meanings |-> <<M("A", TRUE)>>,
                        readings |-> <<R("ra", TRUE)>>]]

RadicalIds == {21, 22, 24}

RadicalItem(id) ==
    CASE id = 21 -> [id |-> 21, data |->
                       [slug |-> "tree",
                        meanings |-> <<M("Tree", FALSE)>>]]
      [] id = 22 -> [id |-> 22, data |->
                       [characters |-> "r22", slug |-> "r22",
                        meanings |-> <<M("A", FALSE), M("B", TRUE), M("C", TRUE)>>]]
      [] OTHER   -> [id |-> id, data |-> [characters |-> "r", slug |-> "r"]]

\* The body of GET /subjects?ids=...: the subjects among ids that exist.
BatchBody(ids) ==
    {VocabItem(i) : i \in ids \cap VocabIds}
        \cup {RadicalItem(i) : i \in ids \cap RadicalIds}

\* How an outbound call can end: a response with a status code, a timeout
\* (httpx.TimeoutException) or a transport error (httpx.RequestError).
StatusCodes == {200, 404, 429}

Outcomes ==
    {[kind |-> "response", status |-> s] : s \in StatusCodes}
        \cup {[kind |-> "timeout", status |-> 0], [kind |-> "error", status |-> 0]}

\* The listings the upstream may hold: distinct kanji in any order, cut into
\* pages of a fixed size; an empty listing is one empty page.
InjSeqs(S) ==
    {s \in UNION {[1 .. n -> S] : n \in 0 .. Cardinality(S)} :
        \A i, j \in DOMAIN s : i # j => s[i] # s[j]}

Chunk(flat, size) ==
    LET n == IF Len(flat) = 0 THEN 1 ELSE (Len(flat) + size - 1) \div size
    IN  [i \in 1 .. n |-> SubSeq(flat, (i - 1) * size + 1, Min(i * size, Len(flat)))]

BigListing == Chunk([i \in 1 .. BigCount |-> 100 + i], PerPageDefault)

Listings ==
    {Chunk(flat, size) : flat \in InjSeqs(1 .. NumKanji), size \in 1 .. MaxPageItems}
        \cup {BigListing}

\* The body of GET next_url: the page's items and the pointer to the next page.
ListingBody(cursor) ==
    [data |-> [i \in DOMAIN upstream[cursor] |-> KanjiItem(upstream[cursor][i])],
     pages |-> [next_url |-> IF cursor < Len(upstream) THEN cursor + 1 ELSE 0]]

----------------------------------------------------------------------------
(* The program's pure parts *)

JLPT_LEVEL_MAPPING ==
    << [jlpt |-> "N5", levels |-> 1 .. 10],
       [jlpt |-> "N4", levels |-> 11 .. 20],
       [jlpt |-> "N3", levels |-> 21 .. 30],
       [jlpt |-> "N2", levels |-> 31 .. 50],
       [jlpt |-> "N1", levels |-> 51 .. 60] >>

\* Variant: a level outside every band falls to N5 instead of N1.
get_jlpt_level_N5_default(wanikani_level) ==
    LET hits == {i \in DOMAIN JLPT_LEVEL_MAPPING :
                    wanikani_level \in JLPT_LEVEL_MAPPING[i].levels}
    IN  IF hits = {} THEN "N5"
        ELSE JLPT_LEVEL_MAPPING[CHOOSE i \in hits : \A j \in hits : i <= j].jlpt

\* The first entry, in the mapping's order, whose levels hold the level.
get_jlpt_level(wanikani_level) ==
    LET hits == {i \in DOMAIN JLPT_LEVEL_MAPPING :
                    wanikani_level \in JLPT_LEVEL_MAPPING[i].levels}
    IN  IF hits = {} THEN "N1"
        ELSE JLPT_LEVEL_MAPPING[CHOOSE i \in hits : \A j \in hits : i <= j].jlpt

\* str.upper() on the band codes a request may carry.
Upper(code) ==
    CASE code = "n5" -> "N5"
      [] OTHER -> code

\* The levels the listing query is restricted to ({}: no levels parameter).
LevelsParam(jlpt_level) ==
    LET hits == {i \in DOMAIN JLPT_LEVEL_MAPPING :
                    JLPT_LEVEL_MAPPING[i].jlpt = Upper(jlpt_level)}
    IN  IF jlpt_level # "" /\ hits # {}
        THEN JLPT_LEVEL_MAPPING[CHOOSE i \in hits : TRUE].levels
        ELSE {}

\* The HTTPException the handlers' except clauses turn a failed call into
\* (0: the call returned a response).
ExceptStatus(outcome) ==
    CASE outcome.kind = "timeout" -> HTTP_TIMEOUT
      [] outcome.kind = "error" -> HTTP_ERROR
      [] OTHER -> 0

\* Variant: only 5xx listing responses raise.
ListingRaisesOnServerErrors(status_code) == status_code >= 500

\* get_kanji: a listing response the loop raises on.
ListingRaises(status_code) == status_code # HTTP_OK

\* Variant: a batch body is read whatever the status.
BatchUsableAlways(status_code) == TRUE

\* get_kanji: a batch response whose body is read.
BatchUsable(status_code) == status_code = HTTP_OK

\* Variant: only 5xx responses raise; 404 is read as a subject.
SubjectRaisesOnServerErrors(status_code) ==
    IF status_code >= 500 THEN status_code ELSE 0

\* get_kanji_by_id: the status the handler raises for a response (0: none).
SubjectRaises(status_code) ==
    IF status_code = HTTP_NOT_FOUND THEN HTTP_NOT_FOUND
    ELSE IF status_code # HTTP_OK THEN status_code
    ELSE 0

\* The raw record the listing loop keeps of an item.
RawOf(item) ==
    LET item_data == Get(item, "data", <<>>)
    IN  [id |-> Get(item, "id", 0),
         data |-> item_data,
         amalgamation_ids |-> Get(item_data, "amalgamation_subject_ids", <<>>),
         component_ids |-> Get(item_data, "component_subject_ids", <<>>)]

\* Variant: the division rounds down.
TotalPagesFloor(total_count, per_page) == total_count \div per_page

TotalPages(total_count, per_page) == (total_count + per_page - 1) \div per_page

\* Variant: pages are counted from 0.
StartIdxOffByOne(page, per_page) == page * per_page

StartIdx(page, per_page) == (page - 1) * per_page

Paginate(all_raw, page, per_page) ==
    Slice(all_raw, StartIdx(page, per_page), StartIdx(page, per_page) + per_page)

\* Variant: the limit of 5 is dropped.
FirstVocabIdsUnlimited(kanji_raw) == kanji_raw.amalgamation_ids

\* kanji_raw["amalgamation_ids"][:5]
FirstVocabIds(kanji_raw) == Slice(kanji_raw.amalgamation_ids, 0, VocabLimit)

VocabIdsToFetch(page_raw) ==
    UNION {Range(FirstVocabIds(page_raw[i])) : i \in DOMAIN page_raw}

RadicalIdsToFetch(page_raw) ==
    UNION {Range(page_raw[i].component_ids) : i \in DOMAIN page_raw}

\* Variant: the lookup is made for an empty id set too.
NeedsFetchAlways(ids) == TRUE

\* if vocab_ids_to_fetch: / if radical_ids_to_fetch:
NeedsFetch(ids) == ids # {}

MeaningOf(m) == Get(m, "meaning", "")

ReadingOf(r) == Get(r, "reading", "")

\* Variant: with no primary meaning, all meanings are kept.
VocabMeaningsFallBackToAll(meanings) ==
    LET primary == PrimaryOnly(meanings)
        all_meanings == [i \in DOMAIN primary |-> MeaningOf(primary[i])]
    IN  IF all_meanings = <<>>
        THEN [i \in DOMAIN meanings |-> MeaningOf(meanings[i])]
        ELSE all_meanings

VocabMeanings(meanings) ==
    LET primary == PrimaryOnly(meanings)
        first == Slice(meanings, 0, 1)
        all_meanings == [i \in DOMAIN primary |-> MeaningOf(primary[i])]
    IN  IF all_meanings = <<>>
        THEN [i \in DOMAIN first |-> MeaningOf(first[i])]
        ELSE all_meanings

VocabReadings(readings) ==
    LET primary == PrimaryOnly(readings)
    IN  [i \in DOMAIN primary |-> ReadingOf(primary[i])]

VocabWordOf(v_item) ==
    LET v_data == Get(v_item, "data", <<>>)
    IN  [id |-> v_item.id,
         characters |-> Get(v_data, "characters", ""),
         meanings |-> VocabMeanings(Get(v_data, "meanings", <<>>)),
         readings |-> VocabReadings(Get(v_data, "readings", <<>>))]

RadicalMeaning(meanings) ==
    LET primary == PrimaryOnly(meanings)
    IN  IF primary # <<>> THEN MeaningOf(primary[1])
        ELSE IF meanings # <<>> THEN MeaningOf(meanings[1])
        ELSE ""

RadicalComponentOf(r_item) ==
    LET r_data == Get(r_item, "data", <<>>)
    IN  [id |-> r_item.id,
         character |-> Get(r_data, "characters", "None"),
         slug |-> Get(r_data, "slug", ""),
         meaning |-> RadicalMeaning(Get(r_data, "meanings", <<>>))]

\* The item of a batch body that a dict keyed by id keeps for an id.
ItemOf(body, id) == CHOOSE item \in body : item.id = id

VocabMapOf(status_code, body) ==
    IF BatchUsable(status_code)
    THEN [i \in {item.id : item \in body} |-> VocabWordOf(ItemOf(body, i))]
    ELSE <<>>

RadicalMapOf(status_code, body) ==
    IF BatchUsable(status_code)
    THEN [i \in {item.id : item \in body} |-> RadicalComponentOf(ItemOf(body, i))]
    ELSE <<>>

\* vocab_list: the kanji's first ids that the batch resolved, in their order.
VocabListOf(kanji_raw, vmap) ==
    LET found == SelectSeq(FirstVocabIds(kanji_raw), LAMBDA v_id : v_id \in DOMAIN vmap)
    IN  [i \in DOMAIN found |-> vmap[found[i]]]

\* KanjiSubject(...) of the listing: radicals is not passed and keeps the
\* model's default, [].
KanjiSubjectOf(kanji_raw, vmap) ==
    LET wanikani_level == Get(kanji_raw.data, "level", 1)
    IN  [id |-> kanji_raw.id,
         level |-> wanikani_level,
         vocabulary |-> VocabListOf(kanji_raw, vmap),
         radicals |-> <<>>,
         jlpt_level |-> get_jlpt_level(wanikani_level)]

\* KanjiSubject(...) of the single lookup: vocabulary and radicals default.
SingleSubjectOf(item) ==
    LET wanikani_level == Get(Get(item, "data", <<>>), "level", 1)
    IN  [id |-> Get(item, "id", 0),
         level |-> wanikani_level,
         vocabulary |-> <<>>,
         radicals |-> <<>>,
         jlpt_level |-> get_jlpt_level(wanikani_level)]

KanjiResponseOf(page_raw, vmap, total_count, page, per_page) ==
    [kanji |-> [i \in DOMAIN page_raw |-> KanjiSubjectOf(page_raw[i], vmap)],
     total_count |-> total_count,
     page |-> page,
     per_page |-> per_page,
     total_pages |-> TotalPages(total_count, per_page)]

Ok(body) == [kind |-> "ok", status_code |-> HTTP_OK, body |-> body]

HTTPException(status_code) == [kind |-> "error", status_code |-> status_code, body |-> <<>>]

NoResult == [kind |-> "none", status_code |-> 0, body |-> <<>>]

NoRequest == [op |-> "none", jlpt_level |-> "", page |-> 0, per_page |-> 0, kanji_id |-> 0]

\* One outbound GET: what was asked for and how it ended.
Call(kind, levels, cursor, ids, outcome) ==
    [kind |-> kind, levels |-> levels, cursor |-> cursor, ids |-> ids, outcome |-> outcome]

----------------------------------------------------------------------------
(* The inputs a request may carry *)

BandCodes == {"", "n5", "N9"}

PageNumbers == 1 .. MaxPage

PerPages == (1 .. MaxPerPage) \cup {PerPageDefault, PerPageMax}

ClientNames == {"web"}

KanjiIdsAsked == {1, 999999}

\* The bodies GET /subjects/{id} may answer with: any level, or none.
SubjectBodies(kanji_id) ==
    {[id |-> kanji_id, data |-> [level |-> l]] : l \in 0 .. MaxLevel}
        \cup {[id |-> kanji_id, data |-> [characters |-> "k"]]}

----------------------------------------------------------------------------
(* Initial state and actions *)

Init ==
    /\ api_key \in BOOLEAN
    /\ upstream \in Listings
    /\ status_checks = <<>>
    /\ status_returned = <<>>
    /\ pc = "idle"
    /\ req = NoRequest
    /\ next_url = 0
    /\ all_kanji_raw = <<>>
    /\ paginated_raw = <<>>
    /\ vocab_map = <<>>
    /\ radical_map = <<>>
    /\ calls = <<>>
    /\ result = NoResult

\* POST /api/status: the document is inserted and the object returned.
create_status_check(client_name) ==
    /\ Len(status_checks) < MaxStatus
    /\ LET status_obj == [id |-> Len(status_returned) + 1, client_name |-> client_name]
       IN  /\ status_checks' = Append(status_checks, status_obj)
           /\ status_returned' = Append(status_returned, status_obj)
    /\ UNCHANGED <<api_key, upstream, pc, req, next_url, all_kanji_raw, paginated_raw,
                   vocab_map, radical_map, calls, result>>

\* GET /api/kanji, up to the first awaited call.
get_kanji(jlpt_level, page, per_page) ==
    /\ pc = "idle"
    /\ req' = [op |-> "list", jlpt_level |-> jlpt_level, page |-> page,
               per_page |-> per_page, kanji_id |-> 0]
    /\ IF ~api_key
       THEN /\ pc' = "done"
            /\ result' = HTTPException(HTTP_ERROR)
            /\ next_url' = 0
       ELSE /\ pc' = "listing"
            /\ result' = NoResult
            /\ next_url' = 1
    /\ all_kanji_raw' = <<>>
    /\ UNCHANGED <<api_key, upstream, status_checks, status_returned, paginated_raw,
                   vocab_map, radical_map, calls>>

\* get_kanji: the response is built and returned.
Respond(page_raw, vmap, total_count) ==
    /\ pc' = "done"
    /\ result' = Ok(KanjiResponseOf(page_raw, vmap, total_count, req.page, req.per_page))

\* A handler raises: nothing it collected is returned.
Raise(status_code) ==
    /\ pc' = "done"
    /\ result' = HTTPException(status_code)

\* get_kanji: one pass of the listing loop; when the pointer is absent, the
\* page is cut and the code runs on to the next awaited call or to the end.
ListingFetch ==
    /\ pc = "listing"
    /\ \E outcome \in Outcomes :
        LET body == ListingBody(next_url)
            all == all_kanji_raw \o [i \in DOMAIN body.data |-> RawOf(body.data[i])]
            nxt == body.pages.next_url
            page_raw == Paginate(all, req.page, req.per_page)
        IN  /\ calls' = Append(calls,
                    Call("listing", LevelsParam(req.jlpt_level), next_url, {}, outcome))
            /\ IF ExceptStatus(outcome) # 0
               THEN /\ Raise(ExceptStatus(outcome))
                    /\ UNCHANGED <<next_url, all_kanji_raw, paginated_raw>>
               ELSE IF ListingRaises(outcome.status)
               THEN /\ Raise(outcome.status)
                    /\ UNCHANGED <<next_url, all_kanji_raw, paginated_raw>>
               ELSE IF nxt # 0
               THEN /\ next_url' = nxt
                    /\ all_kanji_raw' = all
                    /\ UNCHANGED <<pc, result, paginated_raw>>
               ELSE /\ next_url' = nxt
                    /\ all_kanji_raw' = all
                    /\ paginated_raw' = page_raw
                    /\ IF NeedsFetch(VocabIdsToFetch(page_raw))
                       THEN pc' = "vocab" /\ UNCHANGED result
                       ELSE IF NeedsFetch(RadicalIdsToFetch(page_raw))
                       THEN pc' = "radical" /\ UNCHANGED result
                       ELSE Respond(page_raw, vocab_map, Len(all))
    /\ UNCHANGED <<api_key, upstream, status_checks, status_returned, req,
                   vocab_map, radical_map>>

\* get_kanji: the vocabulary batch lookup.
VocabFetch ==
    /\ pc = "vocab"
    /\ \E outcome \in Outcomes :
        LET ids == VocabIdsToFetch(paginated_raw)
            vmap == VocabMapOf(outcome.status, BatchBody(ids))
        IN  /\ calls' = Append(calls, Call("vocab", {}, 0, ids, outcome))
            /\ IF ExceptStatus(outcome) # 0
               THEN /\ Raise(ExceptStatus(outcome))
                    /\ UNCHANGED vocab_map
               ELSE /\ vocab_map' = vmap
                    /\ IF NeedsFetch(RadicalIdsToFetch(paginated_raw))
                       THEN pc' = "radical" /\ UNCHANGED result
                       ELSE Respond(paginated_raw, vmap, Len(all_kanji_raw))
    /\ UNCHANGED <<api_key, upstream, status_checks, status_returned, req, next_url,
                   all_kanji_raw, paginated_raw, radical_map>>

\* get_kanji: the radical batch lookup, then the response.
RadicalFetch ==
    /\ pc = "radical"
    /\ \E outcome \in Outcomes :
        LET ids == RadicalIdsToFetch(paginated_raw)
        IN  /\ calls' = Append(calls, Call("radical", {}, 0, ids, outcome))
            /\ IF ExceptStatus(outcome) # 0
               THEN /\ Raise(ExceptStatus(outcome))
                    /\ UNCHANGED radical_map
               ELSE /\ radical_map' = RadicalMapOf(outcome.status, BatchBody(ids))
                    /\ Respond(paginated_raw, vocab_map, Len(all_kanji_raw))
    /\ UNCHANGED <<api_key, upstream, status_checks, status_returned, req, next_url,
                   all_kanji_raw, paginated_raw, vocab_map>>

\* GET /api/kanji/{kanji_id}, up to the awaited call.
get_kanji_by_id(kanji_id) ==
    /\ pc = "idle"
    /\ req' = [op |-> "single", jlpt_level |-> "", page |-> 0, per_page |-> 0,
               kanji_id |-> kanji_id]
    /\ IF ~api_key
       THEN Raise(HTTP_ERROR)
       ELSE pc' = "subject" /\ result' = NoResult
    /\ UNCHANGED <<api_key, upstream, status_checks, status_returned, next_url,
                   all_kanji_raw, paginated_raw, vocab_map, radical_map, calls>>

\* get_kanji_by_id: the single lookup and what the handler makes of it.
SubjectFetch ==
    /\ pc = "subject"
    /\ \E outcome \in Outcomes, item \in SubjectBodies(req.kanji_id) :
        /\ calls' = Append(calls, Call("subject", {}, req.kanji_id, {}, outcome))
        /\ pc' = "done"
        /\ result' =
              IF ExceptStatus(outcome) # 0 THEN HTTPException(ExceptStatus(outcome))
              ELSE IF SubjectRaises(outcome.status) # 0
              THEN HTTPException(SubjectRaises(outcome.status))
              ELSE Ok(SingleSubjectOf(item))
    /\ UNCHANGED <<api_key, upstream, status_checks, status_returned, req, next_url,
                   all_kanji_raw, paginated_raw, vocab_map, radical_map>>

\* The response is sent; the handler's locals are gone.
Return ==
    /\ pc = "done"
    /\ pc' = "idle"
    /\ req' = NoRequest
    /\ next_url' = 0
    /\ all_kanji_raw' = <<>>
    /\ paginated_raw' = <<>>
    /\ vocab_map' = <<>>
    /\ radical_map' = <<>>
    /\ calls' = <<>>
    /\ result' = NoResult
    /\ UNCHANGED <<api_key, upstream, status_checks, status_returned>>

Next ==
    \/ \E client_name \in ClientNames : create_status_check(client_name)
    \/ \E jlpt_level \in BandCodes, page \in PageNumbers, per_page \in PerPages :
            get_kanji(jlpt_level, page, per_page)
    \/ ListingFetch
    \/ VocabFetch
    \/ RadicalFetch
    \/ \E kanji_id \in KanjiIdsAsked : get_kanji_by_id(kanji_id)
    \/ SubjectFetch
    \/ Return

Spec == Init /\ [][Next]_vars

----------------------------------------------------------------------------
(* Vocabulary of the properties *)

ListDone == pc = "done" /\ req.op = "list"

ListOk == ListDone /\ result.kind = "ok"

SingleDone == pc = "done" /\ req.op = "single"

Failed(outcome) == outcome.kind # "response" \/ outcome.status # 200

FailedWithStatus(outcome) == outcome.kind = "response" /\ outcome.status # 200

CallsOf(kind) == {i \in DOMAIN calls : calls[i].kind = kind}

Enrichment == CallsOf("vocab") \cup CallsOf("radical")

\* The upstream listing as one list of kanji ids, page after page.
RECURSIVE FlatUpto(_)
FlatUpto(k) == IF k = 0 THEN <<>> ELSE FlatUpto(k - 1) \o upstream[k]

FlatListing == FlatUpto(Len(upstream))

\* C1: a listing fetch that answers with a non-success status is the last
\* outbound call of the request, and the request fails with that status and
\* returns no kanji.
ListingFailureAborts ==
    \A i \in CallsOf("listing") :
        FailedWithStatus(calls[i].outcome)
            => /\ i = Len(calls)
               /\ pc = "done"
               /\ result.kind = "error"
               /\ result.status_code = calls[i].outcome.status

\* C1, its case: the second listing page answers 429 after the first page's
\* records were collected.
ListingFailureAbortsWitness ==
    /\ ListDone
    /\ Len(calls) = 2
    /\ calls[2].kind = "listing"
    /\ calls[2].outcome = [kind |-> "response", status |-> 429]
    /\ all_kanji_raw # <<>>
    /\ result.status_code = 429

\* C2 as stated: once the listing is fetched, an enrichment lookup that fails
\* in any way (a non-success status, a timeout, a transport error) leaves the
\* request successful.
EnrichmentFailureNeverAborts ==
    (ListDone /\ \E i \in Enrichment : Failed(calls[i].outcome))
        => result.kind = "ok"

\* C2, amended: an enrichment lookup that answers with a non-success status
\* does not abort the request: the page and its pagination metadata are
\* returned, with empty vocabulary (radicals) in every record when it was the
\* vocabulary (radical) lookup.  An enrichment lookup that times out aborts
\* the request with 504, and one that fails in transport with 500.
EnrichmentStatusFailureTolerated ==
    ListDone =>
        \A i \in Enrichment :
            /\ calls[i].outcome.kind = "timeout"
                => result.kind = "error" /\ result.status_code = 504
            /\ calls[i].outcome.kind = "error"
                => result.kind = "error" /\ result.status_code = 500
            /\ (FailedWithStatus(calls[i].outcome)
                    /\ \A j \in Enrichment : calls[j].outcome.kind = "response")
                => /\ result.kind = "ok"
                   /\ Len(result.body.kanji) = Len(paginated_raw)
                   /\ result.body.total_count = Len(FlatListing)
                   /\ result.body.page = req.page
                   /\ result.body.per_page = req.per_page
                   /\ \A k \in DOMAIN result.body.kanji :
                        /\ calls[i].kind = "vocab"
                            => result.body.kanji[k].vocabulary = <<>>
                        /\ calls[i].kind = "radical"
                            => result.body.kanji[k].radicals = <<>>

\* C2, its case: the vocabulary lookup answers 429, the radical lookup 200,
\* and a non-empty page is returned.
EnrichmentStatusFailureWitness ==
    /\ ListOk
    /\ \E i \in CallsOf("vocab") : calls[i].outcome.status = 429
    /\ \E i \in CallsOf("radical") : calls[i].outcome.status = 200
    /\ result.body.kanji # <<>>

\* The radicals a record should carry: the kanji's component ids that the
\* radical lookup resolved, each as its RadicalComponent.
ResolvedRadicals(kanji_raw) ==
    LET found == SelectSeq(kanji_raw.component_ids,
                           LAMBDA r_id : r_id \in DOMAIN radical_map)
    IN  [i \in DOMAIN found |-> radical_map[found[i]]]

\* C3: every returned record's radicals are the resolved components of its
\* kanji; a kanji with a resolved component has a non-empty radicals list.
RadicalsAreResolved ==
    ListOk =>
        \A k \in DOMAIN result.body.kanji :
            result.body.kanji[k].radicals = ResolvedRadicals(paginated_raw[k])

Band(level) ==
    CASE level \in 1 .. 10 -> "N5"
      [] level \in 11 .. 20 -> "N4"
      [] level \in 21 .. 30 -> "N3"
      [] level \in 31 .. 50 -> "N2"
      [] OTHER -> "N1"

ReturnedSubjects ==
    IF ListOk THEN Range(result.body.kanji)
    ELSE IF SingleDone /\ result.kind = "ok" THEN {result.body}
    ELSE {}

\* (The first two conjuncts speak of no variable; they are evaluated in the
\* idle states only.)
\* C4: get_jlpt_level gives every level 1..60 the band of the fixed table,
\* the bands are disjoint and cover 1..60, every other level gives N1, and
\* every returned record's jlpt_level is the band of its level.
JlptBandOfLevel ==
    /\ pc = "idle" =>
          /\ \A level \in 0 .. MaxLevel : get_jlpt_level(level) = Band(level)
          /\ \A level \in 1 .. 60 :
                Cardinality({i \in DOMAIN JLPT_LEVEL_MAPPING :
                                level \in JLPT_LEVEL_MAPPING[i].levels}) = 1
    /\ \A subject \in ReturnedSubjects : subject.jlpt_level = Band(subject.level)

\* C4, its case: a single lookup returns a kanji of level 61, banded N1.
JlptBandOfLevelWitness ==
    /\ SingleDone
    /\ result.kind = "ok"
    /\ result.body.level = 61
    /\ result.body.jlpt_level = "N1"

\* The number of items of the listing that fall in the requested window.
WindowSize ==
    LET start == (req.page - 1) * req.per_page
        stop == Min(req.page * req.per_page, Len(FlatListing))
    IN  IF stop > start THEN stop - start ELSE 0

\* C5: total_count is the number of items of the whole upstream listing, and
\* the returned records are the items at 0-based indices
\* [(page-1)*per_page, page*per_page) of it, in upstream order, cut at its end.
PageIsWindowOfListing ==
    ListOk =>
        /\ result.body.total_count = Len(FlatListing)
        /\ Len(result.body.kanji) = WindowSize
        /\ \A k \in DOMAIN result.body.kanji :
              result.body.kanji[k].id = FlatListing[(req.page - 1) * req.per_page + k]

\* C5, its case: page 2 of 20 over 45 items is the items at indices 20..39.
PageIsWindowOfListingWitness ==
    /\ ListOk
    /\ Len(FlatListing) = 45
    /\ req.page = 2
    /\ req.per_page = 20
    /\ Len(result.body.kanji) = 20
    /\ result.body.kanji[1].id = FlatListing[21]
    /\ result.body.kanji[20].id = FlatListing[40]

IsCeiling(pages, total_count, per_page) ==
    /\ pages * per_page >= total_count
    /\ (pages - 1) * per_page < total_count

\* C6: total_pages is ceil(total_count / per_page), for every total_count >= 0
\* and per_page in 1..100, and page and per_page echo the request.
\* (The first conjunct speaks of no variable; it is evaluated in the idle
\* states only.)
TotalPagesIsCeiling ==
    /\ pc = "idle" =>
          \A total_count \in 0 .. BigCount, per_page \in 1 .. 100 :
              IsCeiling(TotalPages(total_count, per_page), total_count, per_page)
    /\ ListOk =>
          /\ IsCeiling(result.body.total_pages, result.body.total_count, req.per_page)
          /\ result.body.total_count = 0 => result.body.total_pages = 0
          /\ result.body.page = req.page
          /\ result.body.per_page = req.per_page

\* C6, its case: 45 items at 20 per page are 3 pages.
TotalPagesIsCeilingWitness ==
    /\ ListOk
    /\ result.body.total_count = 45
    /\ result.body.per_page = 20
    /\ result.body.total_pages = 3

Rank(call) ==
    CASE call.kind = "listing" -> 1
      [] call.kind = "vocab" -> 2
      [] call.kind = "radical" -> 3
      [] OTHER -> 4

\* C7: the outbound calls of a list request are one chain: the listing pages
\* in chain order, each once, and only after the last page of the chain at
\* most one vocabulary lookup and then at most one radical lookup; a lookup
\* is made only for a non-empty id set, and a request that succeeds fetched
\* every page of the chain and made exactly the lookups whose id set is
\* non-empty.
CallsAreOneChain ==
    req.op = "list" =>
        /\ \A i \in CallsOf("listing") : calls[i].cursor = i /\ i <= Len(upstream)
        /\ \A i, j \in DOMAIN calls :
              i < j => /\ Rank(calls[i]) <= Rank(calls[j])
                       /\ Rank(calls[i]) = Rank(calls[j]) => calls[i].kind = "listing"
                       /\ calls[i].outcome.kind = "response"
                       /\ calls[i].kind = "listing" => calls[i].outcome.status = 200
        /\ \A i \in DOMAIN calls : Rank(calls[i]) <= 3
        /\ \A i \in Enrichment :
              /\ Cardinality(CallsOf("listing")) = Len(upstream)
              /\ calls[i].ids # {}
        /\ pc \in {"vocab", "radical"} => Cardinality(CallsOf("listing")) = Len(upstream)
        /\ (ListOk \/ pc = "radical" \/ CallsOf("radical") # {}) =>
              CallsOf("vocab") # {}
                    <=> \E k \in DOMAIN paginated_raw :
                            paginated_raw[k].amalgamation_ids # <<>>
        /\ ListOk =>
              /\ Cardinality(CallsOf("listing")) = Len(upstream)
              /\ CallsOf("radical") # {}
                    <=> \E k \in DOMAIN paginated_raw :
                            paginated_raw[k].component_ids # <<>>
              /\ paginated_raw = <<>> => Enrichment = {}

\* C7, its case: two listing pages, then the vocabulary lookup, then the
\* radical lookup.
CallsAreOneChainWitness ==
    /\ ListOk
    /\ Len(upstream) = 2
    /\ Len(calls) = 4
    /\ calls[3].kind = "vocab"
    /\ calls[4].kind = "radical"

\* What the upstream holds for a kanji: its related vocabulary ids.
UpstreamVocabIds(kanji_id) ==
    Get(KanjiItem(kanji_id).data, "amalgamation_subject_ids", <<>>)

FirstFive(ids) == [i \in 1 .. Min(5, Len(ids)) |-> ids[i]]

\* The ids the vocabulary lookup resolved: those it was asked for that the
\* upstream holds, when it answered 200.
ResolvedVocabIds ==
    UNION {IF Failed(calls[i].outcome) THEN {} ELSE calls[i].ids \cap VocabIds :
              i \in CallsOf("vocab")}

\* C8: a record's vocabulary is its kanji's first 5 related ids, in their
\* order, without those the lookup did not resolve, each replaced by its
\* VocabWord; it has at most 5 entries, and the lookup is asked for no id
\* that is not among the first 5 of a kanji of the page.
VocabularyIsFirstFiveResolved ==
    /\ ListOk =>
          \A k \in DOMAIN result.body.kanji :
              LET subject == result.body.kanji[k]
                  first == FirstFive(UpstreamVocabIds(subject.id))
                  kept == SelectSeq(first, LAMBDA v_id : v_id \in ResolvedVocabIds)
              IN  /\ Len(subject.vocabulary) = Len(kept)
                  /\ Len(subject.vocabulary) <= 5
                  /\ \A n \in DOMAIN kept :
                        /\ subject.vocabulary[n].id = kept[n]
                        /\ subject.vocabulary[n] = vocab_map[kept[n]]
    /\ req.op = "list" =>
          \A i \in CallsOf("vocab") :
              calls[i].ids \subseteq
                  UNION {Range(FirstFive(UpstreamVocabIds(paginated_raw[k].id))) :
                            k \in DOMAIN paginated_raw}

\* C8, its case: kanji 1 lists six words and gets five; kanji 2 lists three,
\* one of them unknown upstream, and gets two.
VocabularyIsFirstFiveResolvedWitness ==
    /\ ListOk
    /\ \E k \in DOMAIN result.body.kanji :
          /\ result.body.kanji[k].id = 1
          /\ Len(UpstreamVocabIds(1)) = 6
          /\ Len(result.body.kanji[k].vocabulary) = 5
    /\ \E k \in DOMAIN result.body.kanji :
          /\ result.body.kanji[k].id = 2
          /\ Len(result.body.kanji[k].vocabulary) = 2

Flagged(s) == {i \in DOMAIN s : Get(s[i], "primary", FALSE)}

\* The n-th smallest member of a set of indices.
Nth(indices, n) == CHOOSE i \in indices : Cardinality({j \in indices : j <= i}) = n

SingleLookupAlwaysOneFetch ==
    /\ status_checks = status_returned
    /\ SingleDone =>
          /\ Len(calls) = 1
          /\ FailedWithStatus(calls[1].outcome)
                => result.kind = "error" /\ result.status_code = calls[1].outcome.status

\* C10, amended: with the API key configured a single lookup makes exactly
\* one upstream fetch (404 gives 404, another non-success status gives that
\* status); without the key it makes none and fails with 500.  In every
\* outcome the status log holds exactly the entries that record created.
SingleLookupOneFetchWhenConfigured ==
    /\ status_checks = status_returned
    /\ req.op = "single" => Len(calls) <= 1
    /\ SingleDone =>
          /\ api_key =>
                /\ Len(calls) = 1
                /\ calls[1].kind = "subject"
                /\ calls[1].cursor = req.kanji_id
                /\ FailedWithStatus(calls[1].outcome)
                      => /\ result.kind = "error"
                         /\ result.status_code = calls[1].outcome.status
          /\ ~api_key =>
                /\ calls = <<>>
                /\ result.kind = "error"
                /\ result.status_code = 500

\* C10, its case: a status check is on record and the lookup's fetch answers
\* 404.
SingleLookupNotFoundWitness ==
    /\ SingleDone
    /\ Len(status_checks) = 1
    /\ Len(calls) = 1
    /\ calls[1].outcome = [kind |-> "response", status |-> 404]
    /\ result.kind = "error"
    /\ result.status_code = 404

====
